---- MODULE Spec2Model ----
(***************************************************************************)
(* Model of the fiber assignment kernel of ets_demo.cc.                    *)
(*                                                                         *)
(* Lengths are integers in micrometers (the source uses double precision   *)
(* millimeters), exposure times are integers in units of 1e-7 s (doubles   *)
(* with their rounding in the double precision driver model).  Vectors     *)
(* indexed by an id (tgt, f2t, t2f, nodes, idx, loc) are functions on      *)
(* 0..n-1 as in the source; lists that are traversed in order (the entries *)
(* of f2t[i] and t2f[j], tid, fid, query results) are sequences holding    *)
(* zero-based ids.                                                         *)
(***************************************************************************)
EXTENDS Integers, Sequences, FiniteSets, TLC

\* ------------------------------------------------------------------------
\* Bounds of the model
\* ------------------------------------------------------------------------
NFib == 3          \* fibers 0..NFib-1 of the focal plane are modelled
MaxTgt == 3        \* longest target list handed to a strategy
MaxPri == 2        \* target priorities are 1..MaxPri
MaxTime == 3       \* target times are 1 and MaxTime, in units of 1e-7 s
MaxQ == 4          \* largest queue of the queue model
MaxProx == 1       \* prox values of the queue model are 0..MaxProx
MaxFract == 2      \* fract is 0..MaxFract halves
MaxExposures == 5  \* cap on the exposures of one driver run
MaxPts == 2        \* largest point set of the raster model
MaxGrid == 2       \* largest nptg and nposang of the search model
MaxDbl == 2        \* longest catalog of the double precision driver model
MaxTenths == 5     \* its target times are 0.1, 0.2, ... MaxTenths/10 s
FractDen == 2      \* fract is given as a multiple of 1/FractDen

\* ------------------------------------------------------------------------
\* Program constants (micrometers)
\* ------------------------------------------------------------------------
rmax == 4750
r_kernel == 4750
dotdist == 1375
colldist == 2000
DotOffset == 1190
HalfPitch == 4000      \* 0.5*8 mm
VPitch == 6928         \* sqrt(0.75)*8 mm
RotPitch == 6000       \* sqrt(0.75)*sqrt(0.75)*8 mm
RotHalf == 3464        \* sqrt(0.75)*0.5*8 mm
CobrasPerModule == 57
ModulesPerField == 14
RasterN == 100
PadInv == 1000000      \* 1/(1e-9 mm) per micrometer
IntMax == 2147483647
Sentinel == 1073741824 \* 1<<30
TimeEps == 1           \* 1e-7 s

Mant == 53             \* bits of a double's mantissa
TenMillion == 10000000 \* 1/1e-7

IntMin == (-IntMax) - 1

Builds == {"indefinite", "saturate"}
Strategies == {"naive", "draining", "new"}

\* ------------------------------------------------------------------------
\* Generic helpers
\* ------------------------------------------------------------------------
Size(v) == Cardinality(DOMAIN v)

Vec(s) == [i \in 0..(Len(s) - 1) |-> s[i + 1]]

Min(a, b) == IF a < b THEN a ELSE b

Max(a, b) == IF a > b THEN a ELSE b

Abs(a) == IF a < 0 THEN -a ELSE a

Range(s) == {s[i] : i \in DOMAIN s}

Count(s, val) == Cardinality({i \in DOMAIN s : s[i] = val})

NoDup(s) == \A i, j \in DOMAIN s : i # j => s[i] # s[j]

\* ------------------------------------------------------------------------
\* vec2
\* ------------------------------------------------------------------------
dsq(a, b) == (a.x - b.x) * (a.x - b.x) + (a.y - b.y) * (a.y - b.y)

\* ------------------------------------------------------------------------
\* Fiber geometry
\* ------------------------------------------------------------------------
id2fiberpos(id) ==
  LET field == id \div (CobrasPerModule * ModulesPerField)
      rem == id - field * CobrasPerModule * ModulesPerField
      module == rem \div CobrasPerModule
      cobra == rem - module * CobrasPerModule
      m == 1 + 2 * module + (cobra % 2)
      k == 1 + 2 * module - cobra
      lx == -VPitch * m
      ly == HalfPitch * k
  IN  CASE field = 1 -> [x |-> (VPitch * m) \div 2 + RotHalf * k,
                         y |-> RotPitch * m - (HalfPitch * k) \div 2]
        [] field = 2 -> [x |-> (VPitch * m) \div 2 - RotHalf * k,
                         y |-> (-RotPitch * m) - (HalfPitch * k) \div 2]
        [] OTHER -> [x |-> lx, y |-> ly]

id2dotpos(id) ==
  LET res == id2fiberpos(id)
  IN  [x |-> res.x, y |-> res.y + DotOffset]

\* ------------------------------------------------------------------------
\* fpraster
\* ------------------------------------------------------------------------
MinOver(S) == CHOOSE m \in S : \A o \in S : m <= o

MaxOver(S) == CHOOSE m \in S : \A o \in S : m >= o

\* floor(d*n/w) for d >= 0, formed without products beyond the machine
\* integers of the model checker
ScaleDiv(d, n, w) == (d \div w) * n + ((d % w) * n) \div w

\* Does the double (x-x0)*idx fit an int?  d is x-x0, n the number of bins,
\* w the width x1-x0 of the box, deg whether the box was padded.
ConvInRange(deg, d, n, w) ==
  IF deg THEN Abs(d) <= (IntMax \div PadInv) \div n
  ELSE /\ Abs(d) \div w <= IntMax \div n
       /\ ((Abs(d) % w) * n) \div w <= IntMax - (Abs(d) \div w) * n

\* int((x-x0)*idx): truncation toward zero when the value fits; otherwise the
\* conversion is undefined and yields what the build's instruction yields.
ToInt(bld, deg, d, n, w) ==
  IF ConvInRange(deg, d, n, w)
  THEN IF deg THEN d * n * PadInv
       ELSE IF d >= 0 THEN ScaleDiv(d, n, w) ELSE -ScaleDiv(-d, n, w)
  ELSE IF bld = "saturate" /\ d > 0 THEN IntMax ELSE IntMin

\* A point may carry fx = 1: its x is 1e-9 mm (the width of a padded box)
\* above the x it gives in micrometers.  That is below the resolution of a
\* raster whose points differ in x by micrometers.  Among points of one x in
\* micrometers, of which some have fx = 1 and some not, it makes the box
\* 1e-9 mm wide, as padding does, with the points of fx = 1 at its far end,
\* where (x-x0)*idx is nx.
Fine(pos) == IF "fx" \in DOMAIN pos THEN pos.fx ELSE 0

\* degx, degy: the box is 1e-9 mm wide or high; finex: without being padded
fpraster(loc, nx, ny) ==
  LET xs == {loc[i].x : i \in DOMAIN loc}
      ys == {loc[i].y : i \in DOMAIN loc}
  IN  [x0 |-> MinOver(xs), x1 |-> MaxOver(xs),
       y0 |-> MinOver(ys), y1 |-> MaxOver(ys),
       degx |-> MinOver(xs) = MaxOver(xs),
       degy |-> MinOver(ys) = MaxOver(ys),
       finex |-> \E i, j \in DOMAIN loc : Fine(loc[i]) # Fine(loc[j]),
       nx |-> nx, ny |-> ny, loc |-> loc]

indexx(bld, r, x) ==
  Max(0, Min(r.nx - 1, ToInt(bld, r.degx, x - r.x0, r.nx, r.x1 - r.x0)))

indexy(bld, r, y) ==
  Max(0, Min(r.ny - 1, ToInt(bld, r.degy, y - r.y0, r.ny, r.y1 - r.y0)))

\* indexx of a stored point
pointx(bld, r, pos) ==
  IF r.degx /\ r.finex /\ Fine(pos) = 1 THEN Max(0, Min(r.nx - 1, r.nx))
  ELSE indexx(bld, r, pos.x)

index(bld, r, pos) == pointx(bld, r, pos) + r.nx * indexy(bld, r, pos.y)

\* center.dsq(p) <= rad*rad.  The squares are formed only when rad is
\* smaller than |dx|+|dy|, so that a far larger radius than the points'
\* extent stays within the machine integers of the model checker.
within(center, p, rad) ==
  LET dx == Abs(center.x - p.x)
      dy == Abs(center.y - p.y)
  IN  IF dx + dy <= rad THEN TRUE
      ELSE IF dx > rad \/ dy > rad THEN FALSE
      ELSE dsq(center, p) <= rad * rad

\* The members of S in increasing order of key
RECURSIVE OrderBy(_, _)
OrderBy(S, key) ==
  IF S = {} THEN <<>>
  ELSE LET m == CHOOSE e \in S : \A o \in S : key[e] <= key[o]
       IN  <<m>> \o OrderBy(S \ {m}, key)

\* data[c] lists the points of cell c in insertion order; the query walks the
\* cells j0..j1 x i0..i1 row by row, so its result is ordered by cell, then
\* by insertion.
query(bld, r, center, rad) ==
  IF \/ center.x < r.x0 - rad \/ center.x > r.x1 + rad
     \/ center.y < r.y0 - rad \/ center.y > r.y1 + rad
  THEN <<>>
  ELSE LET i0 == indexx(bld, r, center.x - rad)
           i1 == indexx(bld, r, center.x + rad)
           j0 == indexy(bld, r, center.y - rad)
           j1 == indexy(bld, r, center.y + rad)
           hit == {k \in DOMAIN r.loc :
                     /\ pointx(bld, r, r.loc[k]) \in i0..i1
                     /\ indexy(bld, r, r.loc[k].y) \in j0..j1
                     /\ within(center, r.loc[k], rad)}
           key == [k \in hit |-> index(bld, r, r.loc[k]) * Size(r.loc) + k]
       IN  OrderBy(hit, key)

tgt2raster(t, nx, ny) == fpraster([i \in DOMAIN t |-> t[i].pos], nx, ny)

\* ------------------------------------------------------------------------
\* pq_entry and pqueue
\* ------------------------------------------------------------------------
pq_entry(prox, pri) == [prox |-> prox, pri |-> pri]

\* pq_entry::operator<, the comparator of pqueue<pq_entry>
comp(a, b) == IF a.pri # b.pri THEN a.pri > b.pri ELSE a.prox < b.prox

\* A queue is [nodes |-> [0..n-1 -> [pri, pos]], idx |-> [0..n -> id]]
place(q, i, node) ==
  [nodes |-> [q.nodes EXCEPT ![node].pos = i],
   idx |-> [q.idx EXCEPT ![i] = node]]

RECURSIVE sift_up_loop(_, _, _)
sift_up_loop(q, i, moving_pri) ==
  LET parent_node == i \div 2
  IN  IF i > 1 /\ comp(q.nodes[q.idx[parent_node]].pri, moving_pri)
      THEN sift_up_loop(place(q, i, q.idx[parent_node]), parent_node, moving_pri)
      ELSE [q |-> q, i |-> i]

\* sift_up that stores the moving node without recording its slot
sift_up_nopos(q, i) ==
  LET moving_node == q.idx[i]
      r == sift_up_loop(q, i, q.nodes[moving_node].pri)
  IN  [r.q EXCEPT !.idx[r.i] = moving_node]

sift_up(q, i) ==
  LET moving_node == q.idx[i]
      r == sift_up_loop(q, i, q.nodes[moving_node].pri)
  IN  place(r.q, r.i, moving_node)

\* maxchild that never looks at the right child
maxchild_left(q, i) ==
  LET child_node == 2 * i
  IN  IF child_node >= Size(q.idx) THEN 0 ELSE child_node

maxchild(q, i) ==
  LET child_node == 2 * i
  IN  IF child_node >= Size(q.idx) THEN 0
      ELSE IF /\ child_node + 1 < Size(q.idx)
              /\ comp(q.nodes[q.idx[child_node]].pri,
                      q.nodes[q.idx[child_node + 1]].pri)
           THEN child_node + 1
           ELSE child_node

RECURSIVE sift_down_loop(_, _, _)
sift_down_loop(q, i, moving_pri) ==
  LET child_node == maxchild(q, i)
  IN  IF child_node # 0 /\ comp(moving_pri, q.nodes[q.idx[child_node]].pri)
      THEN sift_down_loop(place(q, i, q.idx[child_node]), child_node, moving_pri)
      ELSE [q |-> q, i |-> i]

sift_down(q, i) ==
  LET moving_node == q.idx[i]
      r == sift_down_loop(q, i, q.nodes[moving_node].pri)
  IN  place(r.q, r.i, moving_node)

RECURSIVE heapify_from(_, _)
heapify_from(q, i) ==
  IF i >= 1 THEN heapify_from(sift_down(q, i), i - 1) ELSE q

\* heapify that sifts the root only
heapify_root(q) == heapify_from(q, 1)

heapify(q) == heapify_from(q, Size(q.idx) \div 2)

\* pqueue(const vector<T> &pri)
pqueue(pri) ==
  heapify([nodes |-> [i \in DOMAIN pri |-> [pri |-> pri[i], pos |-> i + 1]],
           idx |-> [k \in 0..Size(pri) |-> IF k = 0 THEN 0 ELSE k - 1]])

\* a set_priority that leaves the queue as it is
set_priority_keep(q, new_pri, pos) == q

\* set_priority that always sifts down
set_priority_down(q, new_pri, pos) ==
  sift_down([q EXCEPT !.nodes[pos].pri = new_pri], q.nodes[pos].pos)

set_priority(q, new_pri, pos) ==
  LET old_pri == q.nodes[pos].pri
      q1 == [q EXCEPT !.nodes[pos].pri = new_pri]
      posn == q.nodes[pos].pos
  IN  IF comp(old_pri, new_pri) THEN sift_up(q1, posn) ELSE sift_down(q1, posn)

priority(q, pos) == q.nodes[pos].pri

top_priority(q) == q.nodes[q.idx[1]].pri

\* a top that reads the last slot of the heap
top_last(q) == q.idx[Size(q.nodes)]

top(q) == q.idx[1]

EmptyQueue == [nodes |-> <<>>, idx |-> <<>>]

\* ------------------------------------------------------------------------
\* Fiber <-> target mappings
\* ------------------------------------------------------------------------
\* v.erase(remove(v.begin(),v.end(),val)) and the size assertion.  With no
\* occurrence erase() is handed end(), which is undefined; with several, one
\* slot behind the kept values is erased and the size test still passes.
stripout(v, val) ==
  LET kept == SelectSeq(v, LAMBDA e : e # val)
  IN  IF Len(kept) = Len(v)
      THEN [v |-> v, err |-> "erase_end"]
      ELSE [v |-> kept \o SubSeq(v, Len(kept) + 2, Len(v)), err |-> "ok"]

RECURSIVE t2f_fill(_, _, _, _)
t2f_fill(t2f, f2t, i, k) ==
  IF i >= Size(f2t) THEN t2f
  ELSE IF k > Len(f2t[i]) THEN t2f_fill(t2f, f2t, i + 1, 1)
  ELSE t2f_fill([t2f EXCEPT ![f2t[i][k]] = Append(@, i)], f2t, i, k + 1)

\* calcMappings without the dot test
calcMappings_nodot(bld, t, raster) ==
  LET f2t0 == [i \in 0..(NFib - 1) |-> query(bld, raster, id2fiberpos(i), rmax)]
  IN  [f2t |-> f2t0,
       t2f |-> t2f_fill([j \in DOMAIN t |-> <<>>], f2t0, 0, 1),
       err |-> "ok"]

\* calcMappings; the focal plane of the model has NFib fibers
calcMappings(bld, t, raster) ==
  LET f2t0 == [i \in 0..(NFib - 1) |->
                 SelectSeq(query(bld, raster, id2fiberpos(i), rmax),
                           LAMBDA j : dsq(id2dotpos(i), t[j].pos) >= dotdist * dotdist)]
  IN  [f2t |-> f2t0,
       t2f |-> t2f_fill([j \in DOMAIN t |-> <<>>], f2t0, 0, 1),
       err |-> "ok"]

\* first loop of cleanup: stripout(t2f[curtgt],fiber) for curtgt in f2t[fiber]
RECURSIVE cleanup_fiber(_, _, _, _)
cleanup_fiber(m, list, k, fiber) ==
  IF k > Len(list) \/ m.err # "ok" THEN m
  ELSE LET r == stripout(m.t2f[list[k]], fiber)
       IN  cleanup_fiber([m EXCEPT !.t2f[list[k]] = r.v, !.err = r.err,
                                   !.once = @ /\ Count(m.t2f[list[k]], fiber) = 1],
                         list, k + 1, fiber)

\* inner loop of the second part: stripout(f2t[j],i) for j in t2f[i]
RECURSIVE cleanup_target(_, _, _, _)
cleanup_target(m, list, k, i) ==
  IF k > Len(list) \/ m.err # "ok" THEN m
  ELSE LET r == stripout(m.f2t[list[k]], i)
       IN  cleanup_target([m EXCEPT !.f2t[list[k]] = r.v, !.err = r.err,
                                    !.once = @ /\ Count(m.f2t[list[k]], i) = 1],
                          list, k + 1, i)

RECURSIVE cleanup_block(_, _, _)
cleanup_block(m, tmp, k) ==
  IF k > Len(tmp) \/ m.err # "ok" THEN m
  ELSE LET m1 == cleanup_target(m, m.t2f[tmp[k]], 1, tmp[k])
       IN  cleanup_block(IF m1.err = "ok" THEN [m1 EXCEPT !.t2f[tmp[k]] = <<>>] ELSE m1,
                         tmp, k + 1)

\* cleanup that forgets the blocking area altogether
cleanup_noblock(bld, t, raster, m, fiber, itgt) ==
  LET m1 == cleanup_fiber(m, m.f2t[fiber], 1, fiber)
  IN  IF m1.err = "ok" THEN [m1 EXCEPT !.f2t[fiber] = <<>>] ELSE m1

\* cleanup that removes the target itself but not its neighbours
cleanup_self(bld, t, raster, m, fiber, itgt) ==
  LET m1 == cleanup_fiber(m, m.f2t[fiber], 1, fiber)
      m2 == IF m1.err = "ok" THEN [m1 EXCEPT !.f2t[fiber] = <<>>] ELSE m1
  IN  cleanup_block(m2, <<itgt>>, 1)

\* cleanup whose second part strips f2t but leaves t2f[i] as it is
cleanup_keep_t2f(bld, t, raster, m, fiber, itgt) ==
  LET m1 == cleanup_fiber(m, m.f2t[fiber], 1, fiber)
      m2 == IF m1.err = "ok" THEN [m1 EXCEPT !.f2t[fiber] = <<>>] ELSE m1
      m3 == cleanup_block(m2, query(bld, raster, t[itgt].pos, colldist), 1)
  IN  [m3 EXCEPT !.t2f = m2.t2f]

\* cleanup that blocks the targets within rmax of the committed one
cleanup_wide(bld, t, raster, m, fiber, itgt) ==
  LET m1 == cleanup_fiber(m, m.f2t[fiber], 1, fiber)
      m2 == IF m1.err = "ok" THEN [m1 EXCEPT !.f2t[fiber] = <<>>] ELSE m1
  IN  cleanup_block(m2, query(bld, raster, t[itgt].pos, rmax), 1)

\* cleanup that leaves f2t[fiber] as it is after the first loop
cleanup_no_clear(bld, t, raster, m, fiber, itgt) ==
  LET m1 == cleanup_fiber(m, m.f2t[fiber], 1, fiber)
  IN  cleanup_block(m1, query(bld, raster, t[itgt].pos, colldist), 1)

\* cleanup on m = [f2t, t2f, err, once]
cleanup(bld, t, raster, m, fiber, itgt) ==
  LET m1 == cleanup_fiber(m, m.f2t[fiber], 1, fiber)
      m2 == IF m1.err = "ok" THEN [m1 EXCEPT !.f2t[fiber] = <<>>] ELSE m1
  IN  cleanup_block(m2, query(bld, raster, t[itgt].pos, colldist), 1)

\* ------------------------------------------------------------------------
\* Density priorities of the New strategy
\* ------------------------------------------------------------------------
kernelfunc(rsq) == Max(0, r_kernel * r_kernel - rsq)

RECURSIVE calc_pri_ngb(_, _, _, _, _)
calc_pri_ngb(prox, t, i, ngb, k) ==
  IF k > Len(ngb) THEN prox
  ELSE LET j == ngb[k]
           p1 == IF i = j
                 THEN [prox EXCEPT ![i] = @ + t[i].time * t[i].time * kernelfunc(0)]
                 ELSE prox
           tmp == t[i].time * t[j].time * kernelfunc(dsq(t[i].pos, t[j].pos))
           p2 == IF i < j
                 THEN [p1 EXCEPT ![i] = @ + tmp, ![j] = @ + tmp]
                 ELSE p1
       IN  calc_pri_ngb(p2, t, i, ngb, k + 1)

RECURSIVE calc_pri_loop(_, _, _, _, _, _)
calc_pri_loop(prox, bld, t, t2f, raster, i) ==
  IF i >= Size(t) THEN prox
  ELSE calc_pri_loop(
         IF Len(t2f[i]) > 0
         THEN calc_pri_ngb(prox, t, i, query(bld, raster, t[i].pos, r_kernel), 1)
         ELSE prox,
         bld, t, t2f, raster, i + 1)

calc_pri(bld, t, t2f, raster) ==
  LET prox == calc_pri_loop([i \in DOMAIN t |-> 0], bld, t, t2f, raster, 0)
  IN  pqueue([i \in DOMAIN t |-> pq_entry(prox[i], t[i].pri)])

RECURSIVE fix_priority_loop(_, _, _, _, _, _)
fix_priority_loop(q, t, t2f, itgt, ngb, k) ==
  IF k > Len(ngb) THEN q
  ELSE LET j == ngb[k]
           tpri == priority(q, j)
           npri == pq_entry(tpri.prox - t[j].time * t[itgt].time
                              * kernelfunc(dsq(t[itgt].pos, t[j].pos)),
                            tpri.pri)
       IN  fix_priority_loop(
             IF Len(t2f[j]) # 0 \/ tpri.prox # 0
             THEN set_priority(q, npri, j) ELSE q,
             t, t2f, itgt, ngb, k + 1)

fix_priority(bld, t, t2f, raster, itgt, q) ==
  fix_priority_loop(q, t, t2f, itgt, query(bld, raster, t[itgt].pos, r_kernel), 1)

\* ------------------------------------------------------------------------
\* Assignment strategies.  The state of one assign call is the record
\* [f2t, t2f, tid, fid, fiber, maxtgt, pri, err, pc]; fiber is the loop
\* variable of Naive, maxtgt the initial maximum of Draining, pri the queue
\* of New.
\* ------------------------------------------------------------------------
RECURSIVE maxpri_loop(_, _, _, _, _)
maxpri_loop(list, t, j, idx, maxpri) ==
  IF j >= Len(list) THEN list[idx + 1]
  ELSE IF t[list[idx + 1]].pri < maxpri
       THEN maxpri_loop(list, t, j + 1, j, t[list[idx + 1]].pri)
       ELSE maxpri_loop(list, t, j + 1, idx, maxpri)

maxpri_in_fiber(fiber, t, f2t) ==
  maxpri_loop(f2t[fiber], t, 1, 0, t[f2t[fiber][1]].pri)

\* tid.push_back(itgt); fid.push_back(fiber); cleanup(...)
commit(bld, t, raster, s, fiber, itgt) ==
  LET m == cleanup(bld, t, raster,
                   [f2t |-> s.f2t, t2f |-> s.t2f, err |-> s.err, once |-> s.once],
                   fiber, itgt)
  IN  [s EXCEPT !.tid = Append(@, itgt), !.fid = Append(@, fiber),
                !.f2t = m.f2t, !.t2f = m.t2f, !.err = m.err, !.once = m.once,
                !.pc = IF m.err = "ok" THEN s.pc ELSE "abort"]

\* everything assign() does before its loop; the constructor of the raster
\* fails on an empty list (planck_assert(loc.size()>0))
prepare(strategy, bld, t) ==
  LET raster == tgt2raster(t, RasterN, RasterN)
      m == calcMappings(bld, t, raster)
      sizes == {Len(m.f2t[f]) : f \in DOMAIN m.f2t} \cup {0}
  IN  IF Size(t) = 0
      THEN [f2t |-> <<>>, t2f |-> <<>>, tid |-> <<>>, fid |-> <<>>,
            fiber |-> 0, maxtgt |-> 0, pri |-> EmptyQueue,
            err |-> "input array too small", once |-> TRUE, pc |-> "abort"]
      ELSE
      [f2t |-> m.f2t, t2f |-> m.t2f, tid |-> <<>>, fid |-> <<>>,
       fiber |-> 0,
       maxtgt |-> IF strategy = "draining" THEN MaxOver(sizes) ELSE 0,
       pri |-> IF strategy = "new" THEN calc_pri(bld, t, m.t2f, raster)
               ELSE EmptyQueue,
       err |-> "ok", once |-> TRUE,
       pc |-> IF strategy = "naive" /\ NFib = 0 THEN "done" ELSE "loop"]

\* one pass of the for loop of NaiveAssigner::assign
naive_iter(bld, t, s) ==
  LET raster == tgt2raster(t, RasterN, RasterN)
      s1 == IF Len(s.f2t[s.fiber]) = 0 THEN s
            ELSE commit(bld, t, raster, s, s.fiber,
                        maxpri_in_fiber(s.fiber, t, s.f2t))
  IN  IF s1.pc = "abort" THEN s1
      ELSE [s1 EXCEPT !.fiber = @ + 1,
                      !.pc = IF s.fiber + 1 < Size(s.f2t) THEN "loop" ELSE "done"]

\* a fiber search that moves on to a later fiber of the same size
RECURSIVE mintgt_loop_last(_, _, _, _)
mintgt_loop_last(f2t, i, fiber, mintgt) ==
  IF i >= Size(f2t) THEN fiber
  ELSE IF Len(f2t[i]) <= mintgt /\ Len(f2t[i]) > 0
       THEN mintgt_loop_last(f2t, i + 1, i, Len(f2t[i]))
       ELSE mintgt_loop_last(f2t, i + 1, fiber, mintgt)

\* the fiber search of DrainingAssigner::assign; -1 when none is left
RECURSIVE mintgt_loop(_, _, _, _)
mintgt_loop(f2t, i, fiber, mintgt) ==
  IF i >= Size(f2t) THEN fiber
  ELSE IF Len(f2t[i]) < mintgt /\ Len(f2t[i]) > 0
       THEN mintgt_loop(f2t, i + 1, i, Len(f2t[i]))
       ELSE mintgt_loop(f2t, i + 1, fiber, mintgt)

\* one pass of the while loop of DrainingAssigner::assign
draining_iter(bld, t, s) ==
  LET raster == tgt2raster(t, RasterN, RasterN)
      fiber == mintgt_loop(s.f2t, 0, -1, s.maxtgt + 1)
  IN  IF fiber = -1 THEN [s EXCEPT !.pc = "done"]
      ELSE commit(bld, t, raster, s, fiber, maxpri_in_fiber(fiber, t, s.f2t))

\* the fiber choice of NewAssigner::assign: position in t2f[itgt]
RECURSIVE ifib_loop(_, _, _, _, _)
ifib_loop(f2t, list, i, ifib, mintgt) ==
  IF i >= Len(list) THEN ifib
  ELSE IF Len(f2t[list[i + 1]]) < mintgt
       THEN ifib_loop(f2t, list, i + 1, i, Len(f2t[list[i + 1]]))
       ELSE ifib_loop(f2t, list, i + 1, ifib, mintgt)

\* one pass of the while loop of NewAssigner::assign
new_iter(bld, t, s) ==
  LET raster == tgt2raster(t, RasterN, RasterN)
      itgt == top(s.pri)
      list == s.t2f[itgt]
      ifib == ifib_loop(s.f2t, list, 1, 0, Len(s.f2t[list[1]]))
      fiber == list[ifib + 1]
      s1 == commit(bld, t, raster, s, fiber, itgt)
  IN  IF top_priority(s.pri).pri = Sentinel THEN [s EXCEPT !.pc = "done"]
      ELSE IF Len(list) = 0
           THEN [s EXCEPT !.pri = set_priority(@, pq_entry(0, Sentinel), itgt)]
           ELSE IF s1.pc = "abort" THEN s1
                ELSE [s1 EXCEPT !.pri = fix_priority(bld, t, s1.t2f, raster, itgt, @)]

\* assign(): the prologue, then loop passes until the loop is left
RECURSIVE run_loop(_, _, _, _)
run_loop(strategy, bld, t, s) ==
  IF s.pc # "loop" THEN s
  ELSE run_loop(strategy, bld, t,
                CASE strategy = "naive" -> naive_iter(bld, t, s)
                  [] strategy = "draining" -> draining_iter(bld, t, s)
                  [] OTHER -> new_iter(bld, t, s))

assign(strategy, bld, t) == run_loop(strategy, bld, t, prepare(strategy, bld, t))

\* ------------------------------------------------------------------------
\* Projection and exposure search.  Sky coordinates are integers in units of
\* 1/320 millidegree, which the linear term a1 of targetToPFI maps to one
\* micrometer; position angles are whole quarter turns, whose sine and
\* cosine are exact.  The projection is taken to first order around the
\* pointing, near the equator (no r^2 and r^4 distortion terms).
\* ------------------------------------------------------------------------
CosQ(k) == CASE k % 4 = 0 -> 1 [] k % 4 = 2 -> -1 [] OTHER -> 0

SinQ(k) == CASE k % 4 = 1 -> 1 [] k % 4 = 3 -> -1 [] OTHER -> 0

\* rotate(pos, sa, ca)
rotate(pos, sa, ca) ==
  [x |-> ca * pos.x - sa * pos.y, y |-> sa * pos.x + ca * pos.y]

\* targetToPFI: pnew = (angle toward north, angle toward west), rotated with
\* rotate(pnew, cos psi, sin psi), then x = a1*pnew.x and y = -a1*pnew.y
targetToPFI(t, los, psi) ==
  [i \in DOMAIN t |->
     LET pnew == rotate([x |-> t[i].pos.y - los.y, y |-> -(t[i].pos.x - los.x)],
                        CosQ(psi), SinQ(psi))
     IN  [t[i] EXCEPT !.pos = [x |-> -pnew.x, y |-> pnew.y]]]

\* fpraster::anyIn
anyIn(bld, r, center, rad) ==
  IF \/ center.x < r.x0 - rad \/ center.x > r.x1 + rad
     \/ center.y < r.y0 - rad \/ center.y > r.y1 + rad
  THEN FALSE
  ELSE LET i0 == indexx(bld, r, center.x - rad)
           i1 == indexx(bld, r, center.x + rad)
           j0 == indexy(bld, r, center.y - rad)
           j1 == indexy(bld, r, center.y + rad)
       IN  \E k \in DOMAIN r.loc :
             /\ indexx(bld, r, r.loc[k].x) \in i0..i1
             /\ indexy(bld, r, r.loc[k].y) \in j0..j1
             /\ within(center, r.loc[k], rad)

\* select_observable: the indices of the targets near some fiber, ascending
select_observable(bld, t, safety) ==
  LET raster == fpraster([i \in 0..(NFib - 1) |-> id2fiberpos(i)], RasterN, RasterN)
      res == {i \in DOMAIN t : anyIn(bld, raster, t[i].pos, rmax + safety)}
  IN  OrderBy(res, [i \in res |-> i])

\* single_exposure up to the assign call: idx and tgt2
observable_targets(bld, t, center, posang) ==
  LET tgt1 == targetToPFI(t, center, posang)
      idx == select_observable(bld, tgt1, r_kernel)
  IN  [idx |-> idx, tgt2 |-> [k \in 0..(Len(idx) - 1) |-> tgt1[idx[k + 1]]]]

\* tid[i]=idx[tid[i]]
map_back(idx, tid) == [k \in DOMAIN tid |-> idx[tid[k] + 1]]

\* a single_exposure that calls assign on any list
assign_called_always(tgt2) == TRUE

\* if (!tgt2.empty()) ass.assign(tgt2,tid,fid);
assign_called(tgt2) == Size(tgt2) # 0

single_exposure(strategy, bld, t, center, posang) ==
  LET b == observable_targets(bld, t, center, posang)
      a == IF assign_called(b.tgt2) THEN assign(strategy, bld, b.tgt2)
           ELSE [tid |-> <<>>, fid |-> <<>>, err |-> "ok"]
  IN  [tid |-> map_back(b.idx, a.tid), fid |-> a.fid, err |-> a.err]

\* The grid points of optimal_exposure in the order of its three loops
GridPoints(nptg, nposang) ==
  [n \in 1..(nptg * nptg * nposang) |->
     [idx |-> (n - 1) \div (nptg * nposang),
      idy |-> ((n - 1) \div nposang) % nptg,
      ida |-> (n - 1) % nposang]]

\* -d + 2*d*(i+0.5)/n
GridOffset(d, i, n) == (d * (2 * i + 1 - n)) \div n

\* newcenter and newposang of the grid point g = [idx, idy, ida]
newcenter(par, g) ==
  [x |-> par.center.x - GridOffset(par.dptg, g.idx, par.nptg),
   y |-> par.center.y - GridOffset(par.dptg, g.idy, par.nptg)]

newposang(par, g) == par.posang + GridOffset(par.dposang, g.ida, par.nposang)

\* a search that also takes a candidate as good as the best so far
keep_better_or_equal(best, e, center, posang) ==
  IF Len(e.tid) >= Len(best.tid)
  THEN [tid |-> e.tid, fid |-> e.fid, center |-> center, posang |-> posang,
        err |-> "ok"]
  ELSE best

\* if (tid2.size()>tid.size()) { tid=tid2; fid=fid2; center=...; posang=...; }
keep_better(best, e, center, posang) ==
  IF Len(e.tid) > Len(best.tid)
  THEN [tid |-> e.tid, fid |-> e.fid, center |-> center, posang |-> posang,
        err |-> "ok"]
  ELSE best

RECURSIVE optimal_loop(_, _, _, _, _, _, _)
optimal_loop(best, strategy, bld, t, par, grid, n) ==
  IF n > Len(grid) \/ best.err # "ok" THEN best
  ELSE LET e == single_exposure(strategy, bld, t, newcenter(par, grid[n]),
                                newposang(par, grid[n]))
       IN  optimal_loop(
             IF e.err # "ok" THEN [best EXCEPT !.err = e.err]
             ELSE keep_better(best, e, newcenter(par, grid[n]),
                              newposang(par, grid[n])),
             strategy, bld, t, par, grid, n + 1)

\* par = [center, posang, dptg, nptg, dposang, nposang, fract, out]
optimal_exposure(strategy, bld, t, par) ==
  optimal_loop([tid |-> <<>>, fid |-> <<>>, center |-> par.center,
                posang |-> par.posang, err |-> "ok"],
               strategy, bld, t, par, GridPoints(par.nptg, par.nposang), 1)

\* ------------------------------------------------------------------------
\* Multi-exposure driver
\* ------------------------------------------------------------------------
\* strip that also keeps the observed targets whose time is used up
strip_keep_spent(t, remove, time) ==
  LET obs == [i \in DOMAIN t |-> \E k \in DOMAIN remove : remove[k] = i]
  IN  [i \in DOMAIN t |-> IF obs[i] THEN [t[i] EXCEPT !.time = @ - time] ELSE t[i]]

\* strip that takes the exposure's time off every target of the list
strip_all(t, remove, time) ==
  LET obs == [i \in DOMAIN t |-> \E k \in DOMAIN remove : remove[k] = i]
      keep == {i \in DOMAIN t : ~obs[i] \/ t[i].time > time + TimeEps}
      order == OrderBy(keep, [i \in keep |-> i])
  IN  [k \in 0..(Len(order) - 1) |-> [t[order[k + 1]] EXCEPT !.time = @ - time]]

\* strip that lets an observed target go only when its time is below the
\* exposure's
strip_keep_equal(t, remove, time) ==
  LET obs == [i \in DOMAIN t |-> \E k \in DOMAIN remove : remove[k] = i]
      keep == {i \in DOMAIN t : ~obs[i] \/ t[i].time >= time}
      order == OrderBy(keep, [i \in keep |-> i])
  IN  [k \in 0..(Len(order) - 1) |->
         IF obs[order[k + 1]]
         THEN [t[order[k + 1]] EXCEPT !.time = @ - time]
         ELSE t[order[k + 1]]]

\* strip: observed targets keep time-tau when time > tau + 1e-7, and go
\* otherwise; the others stay
strip(t, remove, time) ==
  LET obs == [i \in DOMAIN t |-> \E k \in DOMAIN remove : remove[k] = i]
      keep == {i \in DOMAIN t : ~obs[i] \/ t[i].time > time + TimeEps}
      order == OrderBy(keep, [i \in keep |-> i])
  IN  [k \in 0..(Len(order) - 1) |->
         IF obs[order[k + 1]]
         THEN [t[order[k + 1]] EXCEPT !.time = @ - time]
         ELSE t[order[k + 1]]]

\* ------------------------------------------------------------------------
\* Double precision arithmetic
\* ------------------------------------------------------------------------
\* ttime, acc and the target times are IEEE doubles.  Where the rounding of
\* their sums and differences matters they are modelled exactly: a natural
\* number is the sequence of its digits of 7 bits (base 128), lowest first
\* and without leading zeros (zero is <<>>), and a non-negative double is
\* [m, e] with the value m * 2^e, where m is 0 or has Mant bits.
BigTrim(a) ==
  LET nz == {i \in DOMAIN a : a[i] # 0}
  IN  IF nz = {} THEN <<>> ELSE SubSeq(a, 1, CHOOSE i \in nz : \A j \in nz : j <= i)

RECURSIVE BigAddFrom(_, _, _, _)
BigAddFrom(a, b, i, carry) ==
  IF i > Len(a) /\ i > Len(b) THEN (IF carry = 0 THEN <<>> ELSE <<carry>>)
  ELSE LET sum == (IF i <= Len(a) THEN a[i] ELSE 0)
                    + (IF i <= Len(b) THEN b[i] ELSE 0) + carry
       IN  <<sum % 128>> \o BigAddFrom(a, b, i + 1, sum \div 128)

BigAdd(a, b) == BigAddFrom(a, b, 1, 0)

\* a - b for a >= b
RECURSIVE BigSubFrom(_, _, _, _)
BigSubFrom(a, b, i, borrow) ==
  IF i > Len(a) THEN <<>>
  ELSE LET diff == a[i] - (IF i <= Len(b) THEN b[i] ELSE 0) - borrow
       IN  IF diff < 0 THEN <<diff + 128>> \o BigSubFrom(a, b, i + 1, 1)
           ELSE <<diff>> \o BigSubFrom(a, b, i + 1, 0)

BigSub(a, b) == BigTrim(BigSubFrom(a, b, 1, 0))

RECURSIVE BigLessAt(_, _, _)
BigLessAt(a, b, i) ==
  IF i = 0 THEN FALSE
  ELSE IF a[i] # b[i] THEN a[i] < b[i] ELSE BigLessAt(a, b, i - 1)

BigLess(a, b) ==
  IF Len(a) # Len(b) THEN Len(a) < Len(b) ELSE BigLessAt(a, b, Len(a))

\* a * n for 0 <= n <= 128
RECURSIVE BigMulFrom(_, _, _, _)
BigMulFrom(a, n, i, carry) ==
  IF i > Len(a) THEN (IF carry = 0 THEN <<>> ELSE <<carry>>)
  ELSE LET prod == a[i] * n + carry
       IN  <<prod % 128>> \o BigMulFrom(a, n, i + 1, prod \div 128)

BigMulSmall(a, n) == BigTrim(BigMulFrom(a, n, 1, 0))

\* quotient and remainder of the digits i.. of a by d, for d * 128 within
\* the integers
RECURSIVE BigDivFrom(_, _, _)
BigDivFrom(a, d, i) ==
  IF i > Len(a) THEN [q |-> <<>>, r |-> 0]
  ELSE LET high == BigDivFrom(a, d, i + 1)
           cur == high.r * 128 + a[i]
       IN  [q |-> <<cur \div d>> \o high.q, r |-> cur % d]

BigDivSmall(a, d) ==
  LET h == BigDivFrom(a, d, 1) IN [q |-> BigTrim(h.q), r |-> h.r]

\* a * 2^k and a \div 2^k
BigShl(a, k) ==
  IF a = <<>> THEN <<>>
  ELSE [i \in 1..(k \div 7) |-> 0] \o BigMulSmall(a, 2 ^ (k % 7))

BigShr(a, k) ==
  IF Len(a) <= k \div 7 THEN <<>>
  ELSE BigDivSmall(SubSeq(a, (k \div 7) + 1, Len(a)), 2 ^ (k % 7)).q

\* the number of bits of a
BigBits(a) ==
  IF a = <<>> THEN 0
  ELSE 7 * (Len(a) - 1)
         + (CHOOSE k \in 1..7 : 2 ^ (k - 1) <= a[Len(a)] /\ a[Len(a)] < 2 ^ k)

dbl_zero == [m |-> <<>>, e |-> 0]

\* the double nearest to m * 2^e, ties to the even mantissa
dbl_round(m, e) ==
  LET bits == BigBits(m)
      drop == bits - Mant
      q == BigShr(m, drop)
      rest == BigSub(m, BigShl(q, drop))
      half == BigShl(<<1>>, drop - 1)
      up == BigLess(half, rest) \/ (rest = half /\ q[1] % 2 = 1)
      q1 == IF up THEN BigAdd(q, <<1>>) ELSE q
  IN  IF bits = 0 THEN dbl_zero
      ELSE IF drop <= 0 THEN [m |-> BigShl(m, -drop), e |-> e + drop]
      ELSE IF BigBits(q1) > Mant THEN [m |-> BigShr(q1, 1), e |-> e + drop + 1]
      ELSE [m |-> q1, e |-> e + drop]

\* the mantissas of a and b at their common exponent
dbl_align(a, b) ==
  LET e == IF a.e < b.e THEN a.e ELSE b.e
  IN  [a |-> BigShl(a.m, a.e - e), b |-> BigShl(b.m, b.e - e), e |-> e]

dbl_less(a, b) ==
  IF a.m = <<>> THEN b.m # <<>>
  ELSE IF b.m = <<>> THEN FALSE
  ELSE LET c == dbl_align(a, b) IN BigLess(c.a, c.b)

dbl_add(a, b) ==
  IF a.m = <<>> THEN b
  ELSE IF b.m = <<>> THEN a
  ELSE LET c == dbl_align(a, b) IN dbl_round(BigAdd(c.a, c.b), c.e)

\* a - b for a >= b
dbl_sub(a, b) ==
  IF b.m = <<>> THEN a
  ELSE LET c == dbl_align(a, b) IN dbl_round(BigSub(c.a, c.b), c.e)

\* double(n) * a for a small count n
dbl_times(n, a) == dbl_round(BigMulSmall(a.m, n), a.e)

\* the double that a decimal text or literal with the value n/d stands for:
\* the quotient to 84 binary places, a last bit set when the division
\* leaves a remainder, rounded
dbl_decimal(n, d) ==
  LET h == BigDivSmall(BigShl(<<n>>, 84), d)
      sticky == IF h.r = 0 THEN <<>> ELSE <<1>>
  IN  dbl_round(BigAdd(BigShl(h.q, 1), sticky), -85)

\* the 1e-7 of strip
dbl_eps == dbl_decimal(1, TenMillion)

RECURSIVE SumTime(_, _)
SumTime(t, i) == IF i >= Size(t) THEN 0 ELSE t[i].time + SumTime(t, i + 1)

\* the duration of an exposure: the smallest time in tidmax
RECURSIVE min_time(_, _, _, _)
min_time(t, tidmax, k, time) ==
  IF k > Len(tidmax) THEN time
  ELSE min_time(t, tidmax, k + 1,
                IF t[tidmax[k]].time < time THEN t[tidmax[k]].time ELSE time)

\* a loop pass that takes the exposure's product off acc
subprocess_pass_acc_minus(par, d, o) ==
  LET time == min_time(d.tgt1, o.tid, 1, d.tgt1[o.tid[1]].time)
      acc == d.acc - Len(o.tid) * time
      d1 == [d EXCEPT !.time2 = @ + time, !.acc = acc, !.cnt = @ + 1,
                      !.report = Append(@, [cnt |-> d.cnt, time |-> time])]
  IN  IF o.err # "ok" THEN [d EXCEPT !.pc = "abort"]
      ELSE IF Len(o.tid) = 0 THEN [d EXCEPT !.pc = "done"]
      ELSE IF acc * FractDen > par.fract * d.ttime THEN [d1 EXCEPT !.pc = "done"]
      ELSE [d1 EXCEPT !.tgt1 = strip(d.tgt1, o.tid, time), !.pc = "run"]

\* a loop pass that tests the coverage before it writes the block
subprocess_pass_test_first(par, d, o) ==
  LET time == min_time(d.tgt1, o.tid, 1, d.tgt1[o.tid[1]].time)
      acc == d.acc + Len(o.tid) * time
      d1 == [d EXCEPT !.time2 = @ + time, !.acc = acc, !.cnt = @ + 1]
  IN  IF o.err # "ok" THEN [d EXCEPT !.pc = "abort"]
      ELSE IF Len(o.tid) = 0 THEN [d EXCEPT !.pc = "done"]
      ELSE IF acc * FractDen > par.fract * d.ttime THEN [d1 EXCEPT !.pc = "done"]
      ELSE [d1 EXCEPT !.tgt1 = strip(d.tgt1, o.tid, time), !.pc = "run",
                      !.report = Append(@, [cnt |-> d.cnt, time |-> time])]

\* a loop pass that writes the fiber index as it is, counted from 0
subprocess_pass_fiber0(par, d, o) ==
  LET time == min_time(d.tgt1, o.tid, 1, d.tgt1[o.tid[1]].time)
      acc == d.acc + Len(o.tid) * time
      block == [cnt |-> d.cnt, time |-> time, center |-> o.center,
                posang |-> o.posang,
                rows |-> [k \in DOMAIN o.tid |->
                            [id |-> d.tgt1[o.tid[k]].id, fiber |-> o.fid[k],
                             x |-> d.tgt1[o.tid[k]].pos.x,
                             y |-> d.tgt1[o.tid[k]].pos.y]]]
      d1 == [d EXCEPT !.time2 = @ + time, !.acc = acc, !.cnt = @ + 1,
                      !.report = IF par.out THEN Append(@, block) ELSE @]
  IN  IF o.err # "ok" THEN [d EXCEPT !.pc = "abort"]
      ELSE IF Len(o.tid) = 0 THEN [d EXCEPT !.pc = "done"]
      ELSE IF acc * FractDen > par.fract * d.ttime THEN [d1 EXCEPT !.pc = "done"]
      ELSE [d1 EXCEPT !.tgt1 = strip(d.tgt1, o.tid, time), !.pc = "run"]

\* a pass of the while loop of subprocess from the return of
\* optimal_exposure on: d = [tgt1, ttime, acc, time2, cnt, report, pc] are
\* the locals, o = [tid, fid, center, posang, err] is what the search returned
subprocess_pass(par, d, o) ==
  LET time == min_time(d.tgt1, o.tid, 1, d.tgt1[o.tid[1]].time)
      acc == d.acc + Len(o.tid) * time
      block == [cnt |-> d.cnt, time |-> time, center |-> o.center,
                posang |-> o.posang,
                rows |-> [k \in DOMAIN o.tid |->
                            [id |-> d.tgt1[o.tid[k]].id, fiber |-> o.fid[k] + 1,
                             x |-> d.tgt1[o.tid[k]].pos.x,
                             y |-> d.tgt1[o.tid[k]].pos.y]]]
      d1 == [d EXCEPT !.time2 = @ + time, !.acc = acc, !.cnt = @ + 1,
                      !.report = IF par.out THEN Append(@, block) ELSE @]
  IN  IF o.err # "ok" THEN [d EXCEPT !.pc = "abort"]
      ELSE IF Len(o.tid) = 0 THEN [d EXCEPT !.pc = "done"]
      ELSE IF acc * FractDen > par.fract * d.ttime THEN [d1 EXCEPT !.pc = "done"]
      ELSE [d1 EXCEPT !.tgt1 = strip(d.tgt1, o.tid, time), !.pc = "run"]

\* The same loop pass on doubles.  ttime is summed in catalog order.
RECURSIVE ttime_loop(_, _, _)
ttime_loop(t, i, sum) ==
  IF i >= Size(t) THEN sum ELSE ttime_loop(t, i + 1, dbl_add(sum, t[i].time))

RECURSIVE min_time_dbl(_, _, _, _)
min_time_dbl(t, tidmax, k, time) ==
  IF k > Len(tidmax) THEN time
  ELSE min_time_dbl(t, tidmax, k + 1,
                    IF dbl_less(t[tidmax[k]].time, time) THEN t[tidmax[k]].time
                    ELSE time)

strip_dbl(t, remove, time) ==
  LET obs == [i \in DOMAIN t |-> \E k \in DOMAIN remove : remove[k] = i]
      bar == dbl_add(time, dbl_eps)
      keep == {i \in DOMAIN t : ~obs[i] \/ dbl_less(bar, t[i].time)}
      order == OrderBy(keep, [i \in keep |-> i])
  IN  [k \in 0..(Len(order) - 1) |->
         IF obs[order[k + 1]]
         THEN [t[order[k + 1]] EXCEPT !.time = dbl_sub(@, time)]
         ELSE t[order[k + 1]]]

\* acc/ttime > fract for fract = num/FractDen, which is 0, 1/2 or 1: the
\* rounded quotient of two doubles is above a power of two exactly when the
\* quotient is (a quotient above 2^k is above it by more than half the
\* spacing of the doubles there), and num*ttime and FractDen*acc are exact
coverage_reached(acc, ttime, num) ==
  dbl_less(dbl_times(num, ttime), dbl_times(FractDen, acc))

subprocess_pass_dbl(par, d, o) ==
  LET time == min_time_dbl(d.tgt1, o.tid, 1, d.tgt1[o.tid[1]].time)
      acc == dbl_add(d.acc, dbl_times(Len(o.tid), time))
      block == [cnt |-> d.cnt, time |-> time, center |-> o.center,
                posang |-> o.posang,
                rows |-> [k \in DOMAIN o.tid |->
                            [id |-> d.tgt1[o.tid[k]].id, fiber |-> o.fid[k] + 1,
                             x |-> d.tgt1[o.tid[k]].pos.x,
                             y |-> d.tgt1[o.tid[k]].pos.y]]]
      d1 == [d EXCEPT !.time2 = dbl_add(@, time), !.acc = acc, !.cnt = @ + 1,
                      !.report = IF par.out THEN Append(@, block) ELSE @]
  IN  IF o.err # "ok" THEN [d EXCEPT !.pc = "abort"]
      ELSE IF Len(o.tid) = 0 THEN [d EXCEPT !.pc = "done"]
      ELSE IF coverage_reached(acc, d.ttime, par.fract) THEN [d1 EXCEPT !.pc = "done"]
      ELSE [d1 EXCEPT !.tgt1 = strip_dbl(d.tgt1, o.tid, time), !.pc = "run"]

\* ------------------------------------------------------------------------
\* State
\* ------------------------------------------------------------------------
VARIABLES
  strat,    \* the configured strategy
  build,    \* what the build's double-to-int conversion does out of range
  tgt,      \* the target list of the running assign call (PFI positions)
  f2t, t2f, \* fiber -> targets and target -> fibers
  tid, fid, \* the output of assign
  fiber,    \* loop variable of Naive
  maxtgt,   \* Draining: largest |f2t[f]| after calcMappings
  queue,    \* the pqueue (pri in NewAssigner::assign)
  err,      \* "ok", or the failure that ended the call
  once,     \* history: every stripout call so far met its value exactly once
  pc,       \* position in assign: "start", "loop", "done", "abort";
            \* "idle" before the first call, "pq"/"pqset" in the queue model
  par,      \* the parameters of subprocess
  tgt0,     \* the catalog handed to subprocess (sky positions)
  tgt1,     \* the driver's list of targets still to observe (sky positions)
  sel,      \* idx of single_exposure: the observable targets' places in tgt1
  ttime, acc, time2, cnt,
  report,   \* the blocks written to the report file
  dpc,      \* "run" (loop head), "assign" (inside the search), "done",
            \* "abort"; "idle" outside the driver model
  call,     \* the arguments of a function called on its own
  ret       \* what that call returned

asgVars == <<strat, build, tgt, f2t, t2f, tid, fid, fiber, maxtgt, err, once>>

drvVars == <<par, tgt0, tgt1, sel, ttime, acc, time2, cnt, report, dpc>>

callVars == <<call, ret>>

vars == <<asgVars, queue, pc, drvVars, callVars>>

\* ------------------------------------------------------------------------
\* Inputs
\* ------------------------------------------------------------------------
\* Target positions in the patrol areas of fibers 0..2:
\*   two points 1 mm apart that fibers 0 and 1 both reach, the dot center of
\*   fiber 0 (inside its patrol area, reached by nobody), and a point that
\*   fibers 0 and 2 reach.
Positions ==
  { [x |-> -10392, y |-> 2000], [x |-> -10392, y |-> 3000],
    [x |-> -6928, y |-> 5190], [x |-> -6928, y |-> 0] }

Target(pos, time, pri, id) == [pos |-> pos, time |-> time, pri |-> pri, id |-> id]

Times == {1, MaxTime}

TargetChoices == Positions \X Times \X (1..MaxPri)

\* Catalog ids are 100, 101, ... so that they differ from list indices
Catalogs ==
  UNION { { [i \in 0..(n - 1) |-> Target(c[i][1], c[i][2], c[i][3], 100 + i)] :
              c \in [0..(n - 1) -> TargetChoices] } : n \in 1..MaxTgt }

\* Catalogs with targets 1e-9 mm apart: at a point that fibers 0 and 1
\* reach, and at a point 4.74 mm in x from fiber 0, all of time 1 and pri 1
NearPositions ==
  { [x |-> -10392, y |-> 2000], [x |-> -10392, y |-> 2000, fx |-> 1],
    [x |-> -VPitch + rmax - 10, y |-> HalfPitch],
    [x |-> -VPitch + rmax - 10, y |-> HalfPitch, fx |-> 1] }

NearCatalogs ==
  UNION { { [i \in 0..(n - 1) |-> Target(c[i], 1, 1, 100 + i)] :
              c \in [0..(n - 1) -> NearPositions] } : n \in 2..MaxTgt }

\* Catalogs of one or two targets whose pri may be 1<<30 or above
BigPriChoices ==
  { [x |-> -10392, y |-> 2000], [x |-> -VPitch, y |-> 0],
    [x |-> -VPitch, y |-> HalfPitch + DotOffset] }
  \X {1, Sentinel, Sentinel + 1}

BigPriCatalogs ==
  UNION { { [i \in 0..(n - 1) |-> Target(c[i][1], 1, c[i][2], 100 + i)] :
              c \in [0..(n - 1) -> BigPriChoices] } : n \in 1..2 }

\* ------------------------------------------------------------------------
\* One assign call
\* ------------------------------------------------------------------------
AsgState ==
  [f2t |-> f2t, t2f |-> t2f, tid |-> tid, fid |-> fid, fiber |-> fiber,
   maxtgt |-> maxtgt, pri |-> queue, err |-> err, once |-> once, pc |-> pc]

SetAsg(s) ==
  /\ f2t' = s.f2t /\ t2f' = s.t2f /\ tid' = s.tid /\ fid' = s.fid
  /\ fiber' = s.fiber /\ maxtgt' = s.maxtgt /\ queue' = s.pri
  /\ once' = s.once
  /\ err' = s.err /\ pc' = s.pc

IdleDriver ==
  /\ par = <<>> /\ tgt0 = <<>> /\ tgt1 = <<>> /\ sel = <<>>
  /\ ttime = 0 /\ acc = 0 /\ time2 = 0
  /\ cnt = 0 /\ report = <<>> /\ dpc = "idle"

NoCall == call = <<>> /\ ret = <<>>

InitAssign ==
  /\ IdleDriver /\ NoCall
  /\ strat \in Strategies
  /\ build \in Builds
  /\ tgt \in Catalogs \cup NearCatalogs \cup BigPriCatalogs
  /\ f2t = <<>> /\ t2f = <<>> /\ tid = <<>> /\ fid = <<>>
  /\ fiber = 0 /\ maxtgt = 0 /\ once = TRUE /\ queue = EmptyQueue
  /\ err = "ok" /\ pc = "start"

Prepare ==
  /\ pc = "start"
  /\ \E s \in {prepare(strat, build, tgt)} : SetAsg(s)
  /\ UNCHANGED <<strat, build, tgt, drvVars, callVars>>

NaiveIter ==
  /\ pc = "loop" /\ strat = "naive"
  /\ \E s \in {naive_iter(build, tgt, AsgState)} : SetAsg(s)
  /\ UNCHANGED <<strat, build, tgt, drvVars, callVars>>

DrainingIter ==
  /\ pc = "loop" /\ strat = "draining"
  /\ \E s \in {draining_iter(build, tgt, AsgState)} : SetAsg(s)
  /\ UNCHANGED <<strat, build, tgt, drvVars, callVars>>

NewIter ==
  /\ pc = "loop" /\ strat = "new"
  /\ \E s \in {new_iter(build, tgt, AsgState)} : SetAsg(s)
  /\ UNCHANGED <<strat, build, tgt, drvVars, callVars>>

NextAssign == Prepare \/ NaiveIter \/ DrainingIter \/ NewIter

Spec == InitAssign /\ [][NextAssign]_vars

\* The program is sequential: while assign is inside its loop it makes the
\* next pass. This is weak fairness of NextAssign, WF_vars(NextAssign), with
\* the state predicate AsgRunning for ENABLED <<NextAssign>>_vars.
AsgRunning == pc = "start" \/ pc = "loop"

AsgFairness == []<>(~AsgRunning) \/ []<><<NextAssign>>_vars

SpecLive == InitAssign /\ [][NextAssign]_vars /\ AsgFairness

\* ------------------------------------------------------------------------
\* Properties of one assign call
\* ------------------------------------------------------------------------
Fibers == 0..(NFib - 1)

Reaches(f, p) ==
  /\ dsq(id2fiberpos(f), p) <= rmax * rmax
  /\ dsq(id2dotpos(f), p) >= dotdist * dotdist

Committed == {tid[k] : k \in DOMAIN tid}

\* C1: the output lists have equal length, no fiber occurs twice in fid and
\* no target occurs twice in tid (at every point of the call, and so on return)
C1_Exclusive == Len(tid) = Len(fid) /\ NoDup(tid) /\ NoDup(fid)

\* a finished call that committed two pairs and left a reachable target out
C1_Witness ==
  /\ pc = "done" /\ Len(tid) = 2
  /\ \E j \in DOMAIN tgt : j \notin Committed /\ \E f \in Fibers : Reaches(f, tgt[j].pos)

C3_Reachability ==
  Len(tid) = Len(fid) /\ \A k \in DOMAIN tid : Reaches(fid[k], tgt[tid[k]].pos)

\* New committed a pair although another target lies on a dot inside a
\* patrol area
C3_Witness ==
  /\ strat = "new" /\ pc = "done" /\ Len(tid) >= 1
  /\ \E j \in DOMAIN tgt : \E f \in Fibers :
       /\ dsq(id2fiberpos(f), tgt[j].pos) <= rmax * rmax
       /\ dsq(id2dotpos(f), tgt[j].pos) < dotdist * dotdist

\* C4: after calcMappings and after every cleanup, j is in f2t[i] exactly
\* when i is in t2f[j]
C4_Bijection ==
  pc \in {"loop", "done"} =>
    \A i \in DOMAIN f2t : \A j \in DOMAIN t2f :
      (j \in Range(f2t[i])) <=> (i \in Range(t2f[j]))

\* a cleanup has run and edges are left
C4_Witness ==
  /\ pc = "loop" /\ Len(tid) >= 1
  /\ \E i \in DOMAIN f2t : f2t[i] # <<>>

\* t is the first entry of list with the smallest pri
FirstSmallestPri(list, t) ==
  \E k \in DOMAIN list :
    /\ list[k] = t
    /\ \A m \in DOMAIN list :
         /\ tgt[list[m]].pri >= tgt[t].pri
         /\ m < k => tgt[list[m]].pri > tgt[t].pri

\* C5: in Naive and Draining the committed target has the smallest pri of
\* f2t[f] at the moment of selection, the first such in case of ties
C5_SmallestPri ==
  [][(strat \in {"naive", "draining"} /\ Len(tid') = Len(tid) + 1)
       => FirstSmallestPri(f2t[fid'[Len(fid')]], tid'[Len(tid')])]_vars

\* the targets within colldist of target t
Blocked(t) == {j \in DOMAIN tgt : dsq(tgt[j].pos, tgt[t].pos) <= colldist * colldist}

C21_StripoutFindsOne ==
  /\ once /\ err = "ok" /\ pc # "abort"
  /\ \A f \in DOMAIN f2t : NoDup(f2t[f])
  /\ \A j \in DOMAIN t2f : NoDup(t2f[j])

\* a call that returned after two commits, the first of which also blocked
\* a neighbour of its target that two fibers reached
C21_Witness ==
  /\ pc = "done" /\ Len(tid) = 2 /\ once
  /\ \E j \in Blocked(tid[1]) :
       /\ j # tid[1]
       /\ Cardinality({f \in Fibers : Reaches(f, tgt[j].pos)}) >= 2

\* C22: the fiber that a pass of Draining commits has the smallest non-zero
\* |f2t[f]| of all fibers, and the lowest index among the fibers of that size
C22_SmallestFiber ==
  [][(strat = "draining" /\ Len(fid') = Len(fid) + 1) =>
       LET f == fid'[Len(fid')]
       IN  /\ Len(f2t[f]) > 0
           /\ \A i \in DOMAIN f2t :
                Len(f2t[i]) > 0 =>
                  \/ Len(f2t[f]) < Len(f2t[i])
                  \/ Len(f2t[f]) = Len(f2t[i]) /\ f <= i]_vars

\* Draining began with fiber 1, which had fewer targets than fiber 0 and as
\* many as fiber 2
C22_Witness ==
  /\ strat = "draining" /\ Len(fid) >= 1 /\ fid[1] = 1
  /\ \E m \in {calcMappings(build, tgt, tgt2raster(tgt, RasterN, RasterN))} :
       /\ Len(m.f2t[1]) < Len(m.f2t[0])
       /\ Len(m.f2t[1]) = Len(m.f2t[2])

\* C23: a target that New commits has a non-empty t2f at that moment, a pri
\* not above that of any target with a non-empty t2f, and is not marked; a
\* target that is at the top with an empty t2f is marked (0, Sentinel) and
\* nothing is committed in that pass
C23_CommitsBestLive ==
  [][(strat = "new" /\ pc = "loop") =>
       /\ Len(tid') = Len(tid) + 1 =>
            LET t == tid'[Len(tid')]
            IN  /\ t2f[t] # <<>>
                /\ priority(queue, t).pri # Sentinel
                /\ \A j \in DOMAIN tgt : t2f[j] # <<>> => tgt[t].pri <= tgt[j].pri
       /\ (top_priority(queue).pri # Sentinel /\ t2f[top(queue)] = <<>>) =>
            /\ tid' = tid /\ fid' = fid
            /\ priority(queue', top(queue)) = pq_entry(0, Sentinel)]_vars

\* New has marked a target that it never committed and has committed
\* another target of larger pri
C23_Witness ==
  /\ strat = "new" /\ Len(tid) >= 1
  /\ \E j \in DOMAIN tgt :
       /\ j \notin Committed
       /\ priority(queue, j) = pq_entry(0, Sentinel)
       /\ tgt[j].pri < tgt[tid[1]].pri

\* C24: when a strategy returns, every f2t[f] and every t2f[t] is empty,
\* whatever the pri of the targets
C24_NothingLeft ==
  pc = "done" =>
    /\ \A f \in DOMAIN f2t : f2t[f] = <<>>
    /\ \A j \in DOMAIN t2f : t2f[j] = <<>>

\* a pass of the loop either ends the call or moves on: Naive to the next
\* fiber, Draining to a list with one more pair and fewer edges in f2t, New
\* to one more marked entry (and nothing else) or to one more pair and fewer
\* edges
PassAdvances ==
  (pc = "loop") =>
    LET Edges(m) == UNION {{<<f, k>> : k \in DOMAIN m[f]} : f \in DOMAIN m}
        Unmarked(q) == {j \in DOMAIN t2f : priority(q, j).pri # Sentinel}
        s == CASE strat = "naive" -> naive_iter(build, tgt, AsgState)
               [] strat = "draining" -> draining_iter(build, tgt, AsgState)
               [] strat = "new" -> new_iter(build, tgt, AsgState)
        commits == /\ Len(s.tid) = Len(tid) + 1
                   /\ Cardinality(Edges(s.f2t)) < Cardinality(Edges(f2t))
    IN  \/ s.pc \in {"done", "abort"}
        \/ strat = "naive" /\ s.fiber = fiber + 1 /\ s.fiber < NFib
        \/ strat = "draining" /\ commits
        \/ /\ strat = "new"
           /\ \/ commits
              \/ /\ s.tid = tid /\ s.f2t = f2t /\ s.t2f = t2f
                 /\ priority(queue, top(queue)).pri # Sentinel
                 /\ Unmarked(s.pri) = Unmarked(queue) \ {top(queue)}

\* C25: assign terminates for every strategy on every non-empty target list:
\* each pass of its loop ends the call, or advances the fiber (Naive), or
\* commits a pair and removes an edge (Draining, New), or marks one unmarked
\* queue entry as exhausted (New); so the call is eventually over
C25_AssignTerminates ==
  /\ []PassAdvances
  /\ (Size(tgt) > 0) => <>(pc = "done" \/ pc = "abort")

\* New has made a pass that marked an entry and a pass that committed a pair,
\* and the call is over
C25_Witness ==
  /\ strat = "new" /\ pc = "done" /\ Len(tid) >= 2
  /\ \E j \in DOMAIN t2f :
       /\ priority(queue, j) = pq_entry(0, Sentinel)
       /\ \A k \in DOMAIN tid : tid[k] # j

\* the queue as calc_pri built it: no pass of the loop has changed an entry
QueueAsBuilt ==
  /\ strat = "new" /\ pc = "loop" /\ tid = <<>>
  /\ \A i \in DOMAIN tgt : priority(queue, i).pri # Sentinel

\* sum over j = 0..n-1 within r_kernel of i of time_i * time_j * K(d2(i, j))
RECURSIVE KernelSum(_, _, _)
KernelSum(t, i, n) ==
  IF n = 0 THEN 0
  ELSE KernelSum(t, i, n - 1)
       + IF dsq(t[i].pos, t[n - 1].pos) <= r_kernel * r_kernel
         THEN t[i].time * t[n - 1].time * kernelfunc(dsq(t[i].pos, t[n - 1].pos))
         ELSE 0

\* C14: when New builds its queue, the prox of every target i is the sum
\* over all targets j within r_kernel of i, i included, of
\* time_i * time_j * kernelfunc(d2(i, j))
C14_ProxIsKernelSum ==
  QueueAsBuilt =>
    \A i \in DOMAIN tgt : priority(queue, i).prox = KernelSum(tgt, i, Size(tgt))

\* ------------------------------------------------------------------------
\* The priority queue on its own: built from any vector of entries, then
\* any sequence of set_priority calls
\* ------------------------------------------------------------------------
Entries ==
  {pq_entry(x, p) : x \in 0..MaxProx, p \in (1..MaxPri) \cup {Sentinel}}

PriVectors == UNION {[0..(n - 1) -> Entries] : n \in 1..MaxQ}

IdleAssign ==
  /\ strat = "new" /\ build = "indefinite" /\ tgt = <<>>
  /\ f2t = <<>> /\ t2f = <<>> /\ tid = <<>> /\ fid = <<>>
  /\ fiber = 0 /\ maxtgt = 0 /\ once = TRUE /\ err = "ok"

InitPQ ==
  /\ IdleAssign /\ IdleDriver /\ NoCall
  /\ \E v \in PriVectors : queue = pqueue(v)
  /\ pc = "pq"

SetPriority ==
  /\ pc \in {"pq", "pqset"}
  /\ \E id \in DOMAIN queue.nodes : \E p \in Entries :
       queue' = set_priority(queue, p, id)
  /\ pc' = "pqset"
  /\ UNCHANGED <<asgVars, drvVars, callVars>>

NextPQ == SetPriority

SpecPQ == InitPQ /\ [][NextPQ]_vars

QueueIds == DOMAIN queue.nodes

C10_SlotsCoherent ==
  pc \in {"pq", "pqset"} =>
    /\ \A id \in QueueIds : queue.idx[queue.nodes[id].pos] = id
    /\ {queue.idx[k] : k \in 1..Size(queue.nodes)} = QueueIds

\* after a set_priority call a full queue is no longer in construction order
C10_Witness ==
  /\ pc = "pqset" /\ Size(queue.nodes) = MaxQ
  /\ \E id \in QueueIds : queue.nodes[id].pos # id + 1
  /\ queue.idx[1] # 0

\* the heap slots 1..n and the entry held in slot k
Slots == 1..Size(queue.nodes)

SlotPri(k) == queue.nodes[queue.idx[k]].pri

QueryPoints == {[x |-> a, y |-> b] : a \in {0, 1, 3000}, b \in {0, colldist}}

PointSets == UNION {[0..(n - 1) -> QueryPoints] : n \in 1..MaxPts}

GridSizes == {1, 3, RasterN}

\* inside the box, on its corner, and outside of it
Centers ==
  { [x |-> 0, y |-> 0], [x |-> 2000, y |-> 1000], [x |-> 3000, y |-> 2000],
    [x |-> -5000, y |-> 0] }

\* the radii of the program, none, and one of 10000 times the box
Radii == {0, colldist, rmax, 3000 * 10000}

InitQuery ==
  /\ IdleDriver
  /\ strat = "naive" /\ build \in Builds /\ tgt = <<>>
  /\ f2t = <<>> /\ t2f = <<>> /\ tid = <<>> /\ fid = <<>>
  /\ fiber = 0 /\ maxtgt = 0 /\ once = TRUE /\ err = "ok" /\ queue = EmptyQueue
  /\ \E loc \in PointSets : \E nx, ny \in GridSizes :
       call = [raster |-> fpraster(loc, nx, ny)]
  /\ ret = <<>>
  /\ pc = "raster"

Query ==
  /\ pc = "raster"
  /\ \E center \in Centers : \E rad \in Radii :
       /\ call' = [raster |-> call.raster, center |-> center, rad |-> rad]
       /\ ret' = query(build, call.raster, center, rad)
  /\ pc' = "queried"
  /\ UNCHANGED <<asgVars, queue, drvVars>>

NextQuery == Query

SpecQuery == InitQuery /\ [][NextQuery]_vars

\* C13: query returns exactly the indices of the points whose squared
\* distance to center is at most rad*rad, each once
C13_QueryExact ==
  pc = "queried" =>
    /\ NoDup(ret)
    /\ Range(ret) = {i \in DOMAIN call.raster.loc :
                       within(call.center, call.raster.loc[i], call.rad)}

\* ------------------------------------------------------------------------
\* calcMappings on its own
\* ------------------------------------------------------------------------
\* Positions on and next to the boundaries of the patrol areas and dots, and
\* two targets of one position that differ by 1e-9 mm in x
MapPositions ==
  { [x |-> -VPitch, y |-> HalfPitch + DotOffset],                 \* dot center of fiber 0
    [x |-> -VPitch, y |-> HalfPitch + DotOffset - dotdist],       \* at dotdist from it
    [x |-> -VPitch, y |-> HalfPitch + DotOffset - dotdist + 1],   \* just inside the dot
    [x |-> -2 * VPitch + rmax, y |-> 0],                          \* at rmax from fiber 1
    [x |-> -2 * VPitch + rmax + 1, y |-> 0],                      \* just beyond
    [x |-> -10392, y |-> 2000],
    [x |-> -10392, y |-> 2000, fx |-> 1] }

MapCatalogs ==
  UNION { { [i \in 0..(n - 1) |-> Target(c[i], 1, 1, 100 + i)] :
              c \in [0..(n - 1) -> MapPositions] } : n \in 1..MaxTgt }

InitMappings ==
  /\ IdleDriver /\ NoCall
  /\ strat = "naive" /\ build \in Builds
  /\ tgt \in MapCatalogs
  /\ f2t = <<>> /\ t2f = <<>> /\ tid = <<>> /\ fid = <<>>
  /\ fiber = 0 /\ maxtgt = 0 /\ once = TRUE /\ queue = EmptyQueue
  /\ err = "ok" /\ pc = "start"

CalcMappings ==
  /\ pc = "start"
  /\ \E m \in {calcMappings(build, tgt, tgt2raster(tgt, RasterN, RasterN))} :
       f2t' = m.f2t /\ t2f' = m.t2f
  /\ pc' = "mapped"
  /\ UNCHANGED <<strat, build, tgt, tid, fid, fiber, maxtgt, err, once, queue,
                 drvVars, callVars>>

NextMappings == CalcMappings

SpecMappings == InitMappings /\ [][NextMappings]_vars

\* C17: after calcMappings, target j is in f2t[f] exactly when it is within
\* rmax of the fiber's center and at least dotdist from its dot; a target at
\* dotdist or at rmax is in, a target on the dot center is not
C17_ReachableExactly ==
  pc = "mapped" =>
    \A f \in Fibers : \A j \in DOMAIN tgt :
      (\E k \in DOMAIN f2t[f] : f2t[f][k] = j) <=> Reaches(f, tgt[j].pos)

\* ------------------------------------------------------------------------
\* optimal_exposure on its own, over a grid of pointings and position angles
\* ------------------------------------------------------------------------
\* catalogs of targets of time 1, in the sky coordinates that the nominal
\* pointing projects onto Positions
GridCatalogs ==
  { [i \in DOMAIN c |-> [c[i] EXCEPT !.pos = [x |-> -c[i].pos.x, y |-> c[i].pos.y]]] :
      c \in {c \in Catalogs :
               \A i \in DOMAIN c : c[i].pri = 1 + (i % MaxPri) /\ c[i].time = 1} }

\* grids of 1..MaxGrid pointings a side and 1..MaxGrid position angles; the
\* pointings are 1 mm or 8 mm off the center, the angles a quarter turn
GridParams ==
  { [center |-> [x |-> 0, y |-> 0], posang |-> 0, dptg |-> dp, nptg |-> np,
     dposang |-> 2, nposang |-> na, fract |-> 0, out |-> FALSE] :
      dp \in {colldist, 4 * HalfPitch}, np \in 1..MaxGrid, na \in 1..MaxGrid }

Grid == GridPoints(par.nptg, par.nposang)

\* call = [n, tried]: the grid point the loops are at and the tid2, fid2 of
\* the grid points done; ret = [tid, fid, center, posang]
InitGrid ==
  /\ strat \in Strategies
  /\ build \in Builds
  /\ tgt0 \in GridCatalogs
  /\ par \in GridParams
  /\ tgt = <<>> /\ sel = <<>>
  /\ f2t = <<>> /\ t2f = <<>> /\ tid = <<>> /\ fid = <<>>
  /\ fiber = 0 /\ maxtgt = 0 /\ once = TRUE /\ queue = EmptyQueue
  /\ err = "ok" /\ pc = "idle"
  /\ tgt1 = tgt0 /\ ttime = 0
  /\ acc = 0 /\ time2 = 0 /\ cnt = 0 /\ report = <<>> /\ dpc = "grid"
  /\ call = [n |-> 1, tried |-> <<>>]
  /\ ret = [tid |-> <<>>, fid |-> <<>>, center |-> par.center,
            posang |-> par.posang, err |-> "ok"]

\* the body of the three loops up to the assign call of single_exposure
GridStart ==
  /\ dpc = "grid" /\ call.n <= Len(Grid)
  /\ \E b \in {observable_targets(build, tgt0, newcenter(par, Grid[call.n]),
                                   newposang(par, Grid[call.n]))} :
       /\ tgt' = b.tgt2 /\ sel' = b.idx
       /\ pc' = IF assign_called(b.tgt2) THEN "start" ELSE "done"
  /\ f2t' = <<>> /\ t2f' = <<>> /\ tid' = <<>> /\ fid' = <<>>
  /\ fiber' = 0 /\ maxtgt' = 0 /\ once' = TRUE /\ queue' = EmptyQueue /\ err' = "ok"
  /\ dpc' = "single"
  /\ UNCHANGED <<strat, build, par, tgt0, tgt1, ttime, acc, time2, cnt, report, callVars>>

\* assign has returned: the rest of single_exposure and of the loop body
GridEnd ==
  /\ dpc = "single" /\ pc \in {"done", "abort"}
  /\ \E e \in {[tid |-> map_back(sel, tid), fid |-> fid]} :
       /\ ret' = IF err # "ok" THEN [ret EXCEPT !.err = err]
                 ELSE keep_better(ret, e, newcenter(par, Grid[call.n]),
                                  newposang(par, Grid[call.n]))
       /\ call' = [n |-> call.n + 1, tried |-> Append(call.tried, e)]
  /\ dpc' = IF err # "ok" THEN "abort"
            ELSE IF call.n = Len(Grid) THEN "returned" ELSE "grid"
  /\ UNCHANGED <<asgVars, queue, pc, par, tgt0, tgt1, sel, ttime, acc, time2,
                 cnt, report>>

NextGrid == GridStart \/ Prepare \/ NaiveIter \/ DrainingIter \/ NewIter \/ GridEnd

SpecGrid == InitGrid /\ [][NextGrid]_vars

\* the grid points whose assignment is as large as any
Largest == {k \in DOMAIN call.tried :
             \A m \in DOMAIN call.tried :
               Len(call.tried[m].tid) <= Len(call.tried[k].tid)}

FirstLargest == CHOOSE k \in Largest : \A m \in Largest : k <= m

\* C15 as stated: all grid points are tried and the assignment, center and
\* position angle returned are those of the first grid point, in the order
\* of the loops, with the largest number of committed fibers
C15_FirstOfLargest ==
  dpc = "returned" =>
    /\ Len(call.tried) = par.nptg * par.nptg * par.nposang
    /\ ret.tid = call.tried[FirstLargest].tid
    /\ ret.fid = call.tried[FirstLargest].fid
    /\ ret.center = newcenter(par, Grid[FirstLargest])
    /\ ret.posang = newposang(par, Grid[FirstLargest])

\* C15: all grid points are tried; when some grid point commits a fiber, the
\* assignment, center and position angle returned are those of the first
\* grid point with the largest number of committed fibers; when none does,
\* tid and fid are empty and center and position angle are left as passed
C15_FirstOfLargestOrUntouched ==
  dpc = "returned" =>
    /\ Len(call.tried) = par.nptg * par.nptg * par.nposang
    /\ ret.tid = call.tried[FirstLargest].tid
    /\ ret.fid = call.tried[FirstLargest].fid
    /\ IF Len(ret.tid) > 0
       THEN /\ ret.center = newcenter(par, Grid[FirstLargest])
            /\ ret.posang = newposang(par, Grid[FirstLargest])
       ELSE ret.center = par.center /\ ret.posang = par.posang

\* a grid of which a later point is the first to attain the maximum, which
\* two grid points share
C15_Witness ==
  /\ dpc = "returned" /\ Len(call.tried) >= 4
  /\ FirstLargest > 1 /\ Cardinality(Largest) >= 2
  /\ Len(ret.tid) >= 2

\* ------------------------------------------------------------------------
\* The multi-exposure driver
\* ------------------------------------------------------------------------
\* The catalog in sky coordinates that the nominal pointing (0,0) with
\* position angle 0 projects onto the given PFI positions
SkyOf(p) == [x |-> -p.x, y |-> p.y]

\* and the empty catalog
DriverCatalogs ==
  { [i \in DOMAIN c |-> [c[i] EXCEPT !.pos = SkyOf(@)]] :
      c \in {c \in Catalogs : \A i \in DOMAIN c : c[i].pri = 1 + (i % MaxPri)} }
  \cup {<<>>}

DriverParams ==
  { [center |-> [x |-> 0, y |-> 0], posang |-> 0, dptg |-> 0, nptg |-> 1,
     dposang |-> 0, nposang |-> 1, fract |-> fr, out |-> TRUE] :
      fr \in 0..MaxFract }

DrvState ==
  [tgt1 |-> tgt1, ttime |-> ttime, acc |-> acc, time2 |-> time2, cnt |-> cnt,
   report |-> report, pc |-> dpc]

InitDriver ==
  /\ NoCall
  /\ strat \in Strategies
  /\ build \in Builds
  /\ tgt0 \in DriverCatalogs
  /\ par \in DriverParams
  /\ tgt = <<>> /\ sel = <<>>
  /\ f2t = <<>> /\ t2f = <<>> /\ tid = <<>> /\ fid = <<>>
  /\ fiber = 0 /\ maxtgt = 0 /\ once = TRUE /\ queue = EmptyQueue
  /\ err = "ok" /\ pc = "idle"
  /\ tgt1 = tgt0 /\ ttime = SumTime(tgt0, 0)
  /\ acc = 0 /\ time2 = 0 /\ cnt = 0 /\ report = <<>> /\ dpc = "run"

\* The loop head: optimal_exposure enters single_exposure at the one pointing
\* of the grid, which projects the targets, selects the observable ones and
\* calls assign when there are any
ExposeStart ==
  /\ dpc = "run" /\ cnt < MaxExposures
  /\ \E b \in {observable_targets(build, tgt1, par.center, par.posang)} :
       /\ tgt' = b.tgt2 /\ sel' = b.idx
       /\ pc' = IF assign_called(b.tgt2) THEN "start" ELSE "done"
  /\ f2t' = <<>> /\ t2f' = <<>> /\ tid' = <<>> /\ fid' = <<>>
  /\ fiber' = 0 /\ maxtgt' = 0 /\ once' = TRUE /\ queue' = EmptyQueue /\ err' = "ok"
  /\ dpc' = "assign"
  /\ UNCHANGED <<strat, build, par, tgt0, tgt1, ttime, acc, time2, cnt, report, callVars>>

\* assign has returned: the rest of the loop pass
ExposeEnd ==
  /\ dpc = "assign" /\ pc \in {"done", "abort"}
  /\ \E d \in {subprocess_pass(par, DrvState,
                                [tid |-> map_back(sel, tid), fid |-> fid,
                                 center |-> par.center, posang |-> par.posang,
                                 err |-> err])} :
       /\ tgt1' = d.tgt1 /\ ttime' = d.ttime /\ acc' = d.acc
       /\ time2' = d.time2 /\ cnt' = d.cnt /\ report' = d.report
       /\ dpc' = d.pc
  /\ UNCHANGED <<asgVars, queue, pc, par, tgt0, sel, callVars>>

NextDriver == ExposeStart \/ Prepare \/ NaiveIter \/ DrainingIter \/ NewIter \/ ExposeEnd

SpecDriver == InitDriver /\ [][NextDriver]_vars

\* ------------------------------------------------------------------------
\* The driver with its times in double precision, for the strategies that do
\* not read the times (Naive and Draining): catalogs whose time column holds
\* 0.1, 0.2, ...
DoubleChoices == Positions \X (1..MaxTenths)

DoubleCatalogs ==
  UNION { { [i \in 0..(n - 1) |->
               Target(SkyOf(c[i][1]), dbl_decimal(c[i][2], 10), 1 + (i % MaxPri),
                      100 + i)] :
              c \in [0..(n - 1) -> DoubleChoices] } : n \in 1..MaxDbl }

InitDouble ==
  /\ NoCall
  /\ strat \in {"naive", "draining"}
  /\ build \in Builds
  /\ tgt0 \in DoubleCatalogs
  /\ par \in DriverParams
  /\ tgt = <<>> /\ sel = <<>>
  /\ f2t = <<>> /\ t2f = <<>> /\ tid = <<>> /\ fid = <<>>
  /\ fiber = 0 /\ maxtgt = 0 /\ once = TRUE /\ queue = EmptyQueue
  /\ err = "ok" /\ pc = "idle"
  /\ tgt1 = tgt0 /\ ttime = ttime_loop(tgt0, 0, dbl_zero)
  /\ acc = dbl_zero /\ time2 = dbl_zero /\ cnt = 0 /\ report = <<>> /\ dpc = "run"

ExposeEndDouble ==
  /\ dpc = "assign" /\ pc \in {"done", "abort"}
  /\ \E d \in {subprocess_pass_dbl(par, DrvState,
                                    [tid |-> map_back(sel, tid), fid |-> fid,
                                     center |-> par.center, posang |-> par.posang,
                                     err |-> err])} :
       /\ tgt1' = d.tgt1 /\ ttime' = d.ttime /\ acc' = d.acc
       /\ time2' = d.time2 /\ cnt' = d.cnt /\ report' = d.report
       /\ dpc' = d.pc
  /\ UNCHANGED <<asgVars, queue, pc, par, tgt0, sel, callVars>>

NextDouble == ExposeStart \/ Prepare \/ NaiveIter \/ DrainingIter \/ ExposeEndDouble

SpecDouble == InitDouble /\ [][NextDouble]_vars

\* The states in which the program has a next step: at the loop head (below
\* the cap of the model) and anywhere inside a pass
Running == (dpc = "run" /\ cnt < MaxExposures) \/ dpc = "assign"

\* The program is sequential: while it is running it takes its next step.
\* This is weak fairness of NextDriver, WF_vars(NextDriver), written out with
\* the state predicate Running for ENABLED <<NextDriver>>_vars.
Fairness == []<>(~Running) \/ []<><<NextDriver>>_vars

SpecDriverLive == InitDriver /\ [][NextDriver]_vars /\ Fairness

\* C6: the driver terminates, whatever the targets and fract
C6_Terminates == <>(dpc = "done")

\* a run that ended after more than one exposure with targets left over
C6_Witness == dpc = "done" /\ cnt >= 2 /\ Size(tgt1) >= 1

\* C7: from one exposure to the next acc never decreases and the remaining
\* requested time never increases
C7_Monotone ==
  [][acc' >= acc /\ SumTime(tgt1', 0) <= SumTime(tgt1, 0)]_vars

\* after two exposures the driver goes on with a target whose time was
\* reduced and with a shorter list
C7_Witness ==
  /\ dpc = "run" /\ cnt >= 2 /\ acc > 0
  /\ Size(tgt1) >= 1 /\ Size(tgt1) < Size(tgt0)
  /\ \E i \in DOMAIN tgt1 : \E j \in DOMAIN tgt0 :
       tgt1[i].id = tgt0[j].id /\ tgt1[i].time < tgt0[j].time

Assignable == Len(optimal_exposure(strat, build, tgt0, par).tid) # 0

\* C8: every exposure is recorded before the coverage test, the driver runs
\* only while no exposure has taken acc/ttime above fract, and with fract = 0
\* and an assignable target it emits exactly one exposure
C8_CoverageStop ==
  /\ Len(report) = cnt
  /\ dpc \in {"run", "assign"} => acc * FractDen <= par.fract * ttime
  /\ (dpc = "done" /\ par.fract = 0 /\ Assignable) => cnt = 1

\* the coverage test stopped the run right after its second exposure
C8_Witness ==
  /\ dpc = "done" /\ cnt = 2 /\ Len(report) = 2
  /\ acc * FractDen > par.fract * ttime
  /\ (acc - Len(report[2].rows) * report[2].time) * FractDen <= par.fract * ttime

\* the block that the step has written, and the place in tgt1 of the target
\* of its k-th row
NewBlock == report'[Len(report')]

RowTarget(k) == sel[tid[k] + 1]

\* C16 as stated: every row of an exposure's block carries the id of the
\* assigned target, the fiber index plus one, and the target's x, y as
\* targetToPFI projected them for the exposure's pointing and position angle
C16_RowsInPFI ==
  [][Len(report') = Len(report) + 1 =>
       /\ Len(NewBlock.rows) = Len(tid)
       /\ \A k \in DOMAIN tid :
            /\ NewBlock.rows[k].id = tgt[tid[k]].id
            /\ NewBlock.rows[k].fiber = fid[k] + 1
            /\ NewBlock.rows[k].x = tgt[tid[k]].pos.x
            /\ NewBlock.rows[k].y = tgt[tid[k]].pos.y]_vars

\* C16: every row of an exposure's block carries the id of the assigned
\* target, the fiber index plus one, and the target's x, y as the driver's
\* list holds them, which are the catalog's coordinates (RA, DEC)
C16_RowsInCatalogCoordinates ==
  [][Len(report') = Len(report) + 1 =>
       /\ Len(NewBlock.rows) = Len(tid)
       /\ \A k \in DOMAIN tid :
            /\ NewBlock.rows[k].id = tgt[tid[k]].id
            /\ NewBlock.rows[k].fiber = fid[k] + 1
            /\ NewBlock.rows[k].x = tgt1[RowTarget(k)].pos.x
            /\ NewBlock.rows[k].y = tgt1[RowTarget(k)].pos.y
            /\ \E j \in DOMAIN tgt0 :
                 /\ tgt0[j].id = NewBlock.rows[k].id
                 /\ tgt0[j].pos = [x |-> NewBlock.rows[k].x,
                                   y |-> NewBlock.rows[k].y]]_vars

\* the second exposure's block has two rows, with fibers counted from 1
C16_Witness ==
  /\ Len(report) >= 2 /\ Len(report[2].rows) >= 2
  /\ \E k \in DOMAIN report[2].rows : report[2].rows[k].fiber = NFib

\* tids of the exposure, as places in the driver's list, and its duration
Observed == {sel[tid[k] + 1] : k \in DOMAIN tid}

Tau == MinOver({tgt1[i].time : i \in Observed})

Remaining == {i \in DOMAIN tgt1 : i \notin Observed \/ tgt1[i].time - Tau > TimeEps}

\* the place in the new list of the target at place i of the old one
NewPlace(i) == Cardinality({j \in Remaining : j < i})

C26_ExposuresBounded ==
  /\ [][(dpc = "assign" /\ dpc' = "run") =>
          LET Spent == {i \in Observed : tgt1[i].time = Tau}
          IN  /\ Spent # {}
              /\ \A i \in Spent : \A k \in DOMAIN tgt1' : tgt1'[k].id # tgt1[i].id
              /\ Size(tgt1') + Cardinality(Spent) <= Size(tgt1)]_vars
  /\ [](cnt <= Size(tgt0) /\ Len(report) <= Size(tgt0))

\* as many exposures as targets: each exposure but the last took exactly one
\* target off the list
C26_Witness ==
  /\ dpc = "done" /\ Size(tgt0) = MaxTgt /\ cnt = MaxTgt
  /\ Len(report) = MaxTgt

\* C19: with an empty target list the driver writes no exposure and stops
\* normally: the search returns an empty tid without calling the strategy,
\* so the raster over the targets is never built and nothing fails
C19_EmptyListStops ==
  Size(tgt0) = 0 =>
    /\ dpc \in {"run", "assign", "done"}
    /\ pc \in {"idle", "done"}
    /\ err = "ok" /\ tid = <<>> /\ f2t = <<>>
    /\ cnt = 0 /\ report = <<>> /\ acc = 0

\* the driver has stopped on the empty list
C19_Witness == Size(tgt0) = 0 /\ dpc = "done" /\ pc = "done" /\ cnt = 0

\* C27: with positive times acc never exceeds ttime, and for fract >= 1 the
\* driver stops only on an empty exposure, never on the coverage test
C27_AccWithinTotal ==
  /\ ~dbl_less(ttime, acc)
  /\ (dpc = "done" /\ par.fract >= FractDen) => tid = <<>>

\* C28: every value that indexx and indexy convert to int while the raster
\* over the targets is built and while calcMappings queries it for each
\* fiber (a query converts when it gets past the bounding box test) is within
\* the range of int, padded boxes included
C28_ConversionsInRange ==
  (pc = "loop" \/ pc = "done") =>
    LET r == tgt2raster(tgt, RasterN, RasterN)
        converts(c) == ~ \/ c.x < r.x0 - rmax \/ c.x > r.x1 + rmax
                         \/ c.y < r.y0 - rmax \/ c.y > r.y1 + rmax
        inx(x) == ConvInRange(r.degx, x - r.x0, r.nx, r.x1 - r.x0)
        iny(y) == ConvInRange(r.degy, y - r.y0, r.ny, r.y1 - r.y0)
    IN  /\ \A i \in DOMAIN tgt : inx(tgt[i].pos.x) /\ iny(tgt[i].pos.y)
        /\ \A f \in Fibers :
             LET c == id2fiberpos(f)
             IN  converts(c) => /\ inx(c.x - rmax) /\ inx(c.x + rmax)
                                /\ iny(c.y - rmax) /\ iny(c.y + rmax)

====
